---- MODULE Spec2Model ----
(***************************************************************************)
(* A model of the two engines of the repository:                           *)
(*   - the recursive-descent Interpreter ("Custom Interpreter.cpp"), and    *)
(*   - the bytecode VirtualMachine (virtualMachine.cpp).                    *)
(* Source texts are TLA+ strings; a character is a string of length 1 and  *)
(* offsets are 0-based as in the C++ code.                                  *)
(***************************************************************************)
EXTENDS Integers, Sequences, FiniteSets, TLC

VARIABLES
    \* ---- Interpreter object ----
    input,          \* std::string input
    pos,            \* size_t pos
    current_char,   \* char current_char
    variables,      \* std::map<std::string,int>
    functions,      \* std::map<std::string,Function>
    arrays,         \* std::map<std::string,std::vector<int>>
    ipc,            \* where interpret() is: "idle", "program", "done", "crashed"
    ierr,           \* message of the exception interpret() caught, or NoErr
    icalls,         \* number of interpret() calls made so far
    ipre,           \* the three tables as they were when interpret() was entered
    itext,          \* the text the latest interpret() was given
    istmt,          \* the three tables before the latest iteration of program()
    ilog,           \* call_function entries/exits of the latest iteration of program()
    \* ---- VirtualMachine object ----
    registers,      \* int registers[6]
    memory,         \* int* memory (100 cells)
    stackPointer,   \* int stackPointer
    program,        \* std::vector<std::string> program
    pc,             \* int pc
    running,        \* bool running
    callStack,      \* std::stack<int> callStack
    labels,         \* std::unordered_map<std::string,int> labels
    vpc,            \* where run() is: "idle", "loop", "returned", "crashed"
    verr,           \* message of the exception run() caught last, or NoErr
    vlast,          \* the latest fetch: index, instruction text, handler dispatched
                    \* to, and what it threw (NoErr: nothing)
    vub,            \* TRUE once an instruction has had undefined behaviour
    wild,           \* what was stored through registers[i] with i outside 0..5
    vruns,          \* number of run() calls made so far
    vloads,         \* number of load() calls made so far
    vsteps,         \* instructions executed by the current run()
    vends           \* what each run() that returned was given and left

ivars == <<input, pos, current_char, variables, functions, arrays,
           ipc, ierr, icalls, ipre, itext, istmt, ilog>>
vvars == <<registers, memory, stackPointer, program, pc, running, callStack,
           labels, vpc, verr, vlast, vub, wild, vruns, vloads, vsteps, vends>>
vars == <<ivars, vvars>>

(***************************************************************************)
(* Characters                                                              *)
(***************************************************************************)
NUL == "NUL"        \* stands for '\0'; never equal to a one-character string
NoErr == ""

DigitChars == {"0", "1", "2", "3", "4", "5", "6", "7", "8", "9"}
AlphaChars == {"a", "b", "c", "d", "e", "f", "g", "h", "i", "j", "k", "l", "m",
               "n", "o", "p", "q", "r", "s", "t", "u", "v", "w", "x", "y", "z",
               "A", "B", "C", "D", "E", "F", "G", "H", "I", "J", "K", "L", "M",
               "N", "O", "P", "Q", "R", "S", "T", "U", "V", "W", "X", "Y", "Z"}
SpaceChars == {" "}

isdigit(c) == c \in DigitChars
isalpha(c) == c \in AlphaChars
isalnum(c) == isalpha(c) \/ isdigit(c)
isspace(c) == c \in SpaceChars

\* s[i] of a std::string, i <= size(): the character, or '\0' at i = size()
At(s, i) == IF i < Len(s) THEN SubSeq(s, i + 1, i + 1) ELSE NUL

\* e is evaluated once and handed to F as a value (the sequencing of two
\* C++ statements: F works on the state the first one left)
Bind(e, F(_)) == CHOOSE r \in {F(x) : x \in {e}} : TRUE

DigitVal(c) ==
    CASE c = "0" -> 0 [] c = "1" -> 1 [] c = "2" -> 2 [] c = "3" -> 3
      [] c = "4" -> 4 [] c = "5" -> 5 [] c = "6" -> 6 [] c = "7" -> 7
      [] c = "8" -> 8 [] c = "9" -> 9

INT_MAX == 2147483647

\* the value of a string of decimal digits
RECURSIVE DecimalValue(_)
DecimalValue(str) ==
    Bind(str, LAMBDA s :
        IF Len(s) = 0 THEN 0
        ELSE 10 * DecimalValue(SubSeq(s, 1, Len(s) - 1)) + DigitVal(At(s, Len(s) - 1)))

INT_MIN == (0 - INT_MAX) - 1

\* the digits without their leading zeros
RECURSIVE Significant(_)
Significant(str) ==
    Bind(str, LAMBDA s :
        IF Len(s) > 1 /\ At(s, 0) = "0" THEN Significant(SubSeq(s, 2, Len(s))) ELSE s)

\* std::stoi throws std::out_of_range: the digits denote more than INT_MAX
BeyondInt(str) ==
    Bind(Significant(str), LAMBDA z :
        \/ Len(z) > 10
        \/ /\ Len(z) = 10
           /\ Bind(DecimalValue(SubSeq(z, 1, 9)), LAMBDA hi :
                 \/ hi > INT_MAX \div 10
                 \/ hi = INT_MAX \div 10 /\ DigitVal(At(z, 9)) > INT_MAX % 10))

\* a op b does not fit an int: signed overflow, undefined behaviour
Overflows(op, a, b) ==
    CASE op = "+" -> (b > 0 /\ a > INT_MAX - b) \/ (b < 0 /\ a < INT_MIN - b)
      [] op = "-" -> (b < 0 /\ a > INT_MAX + b) \/ (b > 0 /\ a < INT_MIN + b)
      [] op = "*" ->
            IF a = 0 \/ b = 0 \/ a = 1 \/ b = 1 THEN FALSE
            ELSE IF a = INT_MIN \/ b = INT_MIN THEN TRUE
            ELSE LET x == IF a < 0 THEN 0 - a ELSE a
                     y == IF b < 0 THEN 0 - b ELSE b
                 IN IF (a < 0) = (b < 0)
                    THEN x > INT_MAX \div y
                    ELSE ~(\/ x <= INT_MAX \div y
                           \/ x = (INT_MAX \div y) + 1 /\ INT_MAX % y = y - 1)
      [] op = "/" -> a = INT_MIN /\ b = 0 - 1

\* a + b in two's complement
WrapAdd(a, b) ==
    IF b > 0 /\ a > INT_MAX - b THEN (((a - INT_MAX) - 1) + b) + INT_MIN
    ELSE IF b < 0 /\ a < INT_MIN - b THEN (((a + INT_MAX) + 1) + b) + INT_MAX + 1
    ELSE a + b

\* a - b in two's complement
WrapSub(a, b) ==
    IF b = INT_MIN THEN WrapAdd(WrapAdd(a, INT_MAX), 1) ELSE WrapAdd(a, 0 - b)

\* a * b in two's complement, by doubling
RECURSIVE WrapMul(_, _)
WrapMul(a, b) ==
    IF b = 0 THEN 0
    ELSE IF b = INT_MIN THEN (IF a % 2 = 0 THEN 0 ELSE INT_MIN)
    ELSE IF b < 0 THEN WrapSub(0, WrapMul(a, 0 - b))
    ELSE Bind(WrapMul(a, b \div 2), LAMBDA h :
            Bind(WrapAdd(h, h), LAMBDA d :
                IF b % 2 = 1 THEN WrapAdd(d, a) ELSE d))

\* a faulty division: the quotient rounded down instead of toward zero
FloorDiv(a, b) == IF b > 0 THEN a \div b ELSE (0 - a) \div (0 - b)

\* C++ integer division truncates toward zero (b # 0)
TruncDiv(a, b) ==
    LET q == (IF a < 0 THEN -a ELSE a) \div (IF b < 0 THEN -b ELSE b)
    IN IF (a < 0) = (b < 0) THEN q ELSE -q

EmptyMap == [n \in {} |-> 0]
Put(m, k, v) == [n \in (DOMAIN m) \cup {k} |-> IF n = k THEN v ELSE m[n]]

(***************************************************************************)
(* Interpreter: the parser state threaded through the productions.  A      *)
(* production takes the object's state and returns it as the C++ method     *)
(* leaves it; err # NoErr is a std::runtime_error in flight, crash is the   *)
(* process killed by a trap.  val / id / args carry return values.          *)
(***************************************************************************)
Failed(st) == st.err # NoErr \/ st.crash

\* error(msg): throw std::runtime_error("Error: " + msg)
error(st, msg) == [st EXCEPT !.err = "Error: " \o msg]

advance(st) ==
    Bind(st, LAMBDA s :
        [s EXCEPT !.pos = s.pos + 1,
                  !.cc = IF s.pos + 1 < Len(s.input)
                         THEN At(s.input, s.pos + 1) ELSE NUL])

RECURSIVE skip_whitespace(_)
skip_whitespace(st) ==
    Bind(st, LAMBDA s :
        IF s.cc # NUL /\ isspace(s.cc) THEN skip_whitespace(advance(s)) ELSE s)

RECURSIVE digits(_, _)
digits(st, result) ==
    Bind(st, LAMBDA s :
        IF s.cc # NUL /\ isdigit(s.cc)
        THEN digits(advance(s), result \o s.cc)
        ELSE [s EXCEPT !.id = result])

\* integer(): the digits, then std::stoi (std::out_of_range beyond int)
integer(st) ==
    Bind(digits(st, ""), LAMBDA s1 :
        IF BeyondInt(s1.id) THEN [s1 EXCEPT !.err = "stoi"]
        ELSE [s1 EXCEPT !.val = DecimalValue(s1.id)])

RECURSIVE identifierLoop(_, _)
identifierLoop(st, result) ==
    Bind(st, LAMBDA s :
        IF s.cc # NUL /\ (isalnum(s.cc) \/ s.cc = "_")
        THEN identifierLoop(advance(s), result \o s.cc)
        ELSE [s EXCEPT !.id = result])

identifier(st) == identifierLoop(st, "")

(***************************************************************************)
(* Interpreter: expressions                                                *)
(***************************************************************************)
\* a faulty bounds test, one too strict: it rejects the last element
IndexOutOfBoundsStrict(index, size) == index < 0 \/ index >= size - 1

\* the bounds test of an array read or write: index < 0 || index >= size()
IndexOutOfBounds(index, size) == index < 0 \/ index >= size

\* result /= factor() with a zero divisor is undefined behaviour: the build
\* traps (the process dies), or the division yields some value
DivideByZero(st, result) ==
    CASE st.ub = "trap" -> [st EXCEPT !.crash = TRUE]
      [] st.ub = "zero" -> [st EXCEPT !.val = 0]
      [] OTHER -> [st EXCEPT !.val = result]

\* a faulty handler: the cursor and the buffer are put back, the variables not
RestoreOnFailureKeepsVariables(st, saved_input, saved_pos, saved_variables) ==
    [st EXCEPT !.input = saved_input, !.pos = saved_pos,
               !.cc = At(saved_input, saved_pos)]

\* a faulty return path: the parameters stay bound in the caller's table
RestoreOnReturnKeepsVariables(st, saved_input, saved_pos, saved_variables) ==
    [st EXCEPT !.input = saved_input, !.pos = saved_pos,
               !.cc = At(saved_input, saved_pos)]

\* result op= operand: the exact value where it fits an int; signed overflow
\* is undefined behaviour: the build traps, or the value wraps around
Arith(st, op, a, b) ==
    IF Overflows(op, a, b)
    THEN IF st.ub = "trap" THEN [st EXCEPT !.crash = TRUE]
         ELSE [st EXCEPT !.val = CASE op = "+" -> WrapAdd(a, b)
                                   [] op = "-" -> WrapSub(a, b)
                                   [] op = "*" -> WrapMul(a, b)
                                   [] op = "/" -> INT_MIN]
    ELSE [st EXCEPT !.val = CASE op = "+" -> a + b
                              [] op = "-" -> a - b
                              [] op = "*" -> a * b
                              [] op = "/" -> TruncDiv(a, b)]

\* catch (...) { input = saved_input; pos = saved_pos;
\*               current_char = input[pos]; variables = saved_variables; throw; }
RestoreOnFailure(st, saved_input, saved_pos, saved_variables) ==
    [st EXCEPT !.input = saved_input, !.pos = saved_pos,
               !.cc = At(saved_input, saved_pos),
               !.variables = saved_variables]

\* the same four assignments on the normal path
RestoreOnReturn(st, saved_input, saved_pos, saved_variables) ==
    [st EXCEPT !.input = saved_input, !.pos = saved_pos,
               !.cc = At(saved_input, saved_pos),
               !.variables = saved_variables]

\* for (i...) variables[func.parameters[i]] = args[i];
RECURSIVE BindParameters(_, _, _, _)
BindParameters(vs, parameters, args, i) ==
    IF i > Len(parameters) THEN vs
    ELSE Bind(Put(vs, parameters[i], args[i]), LAMBDA w :
             BindParameters(w, parameters, args, i + 1))

\* input = func.body; pos = 0; current_char = input[pos], the parameters bound
EnterBody(st, func) ==
    [st EXCEPT !.variables = BindParameters(st.variables, func.parameters, st.args, 1),
               !.input = func.body, !.pos = 0, !.cc = At(func.body, 0)]

\* what call_function leaves in the log when it is left after the body was entered
CallRecord(name, entry, exit, failed) ==
    [name |-> name, args |-> entry.args, failed |-> failed,
     entry_input |-> entry.input, entry_pos |-> entry.pos,
     entry_variables |-> entry.variables,
     exit_input |-> exit.input, exit_pos |-> exit.pos,
     exit_variables |-> exit.variables, result |-> exit.val]

RECURSIVE factor(_), term(_), termLoop(_, _), expr(_), exprLoop(_, _)
RECURSIVE call_function(_, _), callArgs(_, _, _)

\* the array read of factor(), entered after the '[' was consumed
arrayAccess(st, var_name) ==
    Bind(expr(st), LAMBDA s2 :
        IF Failed(s2) THEN s2
        ELSE IF s2.cc # "]" THEN error(s2, "Expected ']' for array access")
        ELSE Bind(advance(s2), LAMBDA s3 :
            IF var_name \in DOMAIN s3.arrays
            THEN IF IndexOutOfBounds(s2.val, Len(s3.arrays[var_name]))
                 THEN error(s3, "Array index out of bounds")
                 ELSE [s3 EXCEPT !.val = s3.arrays[var_name][s2.val + 1]]
            ELSE error(s3, "Undefined array: " \o var_name)))

factor(st) ==
    Bind(skip_whitespace(st), LAMBDA s0 :
        IF isdigit(s0.cc) THEN integer(s0)
        ELSE IF isalpha(s0.cc)
        THEN Bind(identifier(s0), LAMBDA s1 :
                IF s1.cc = "[" THEN arrayAccess(advance(s1), s1.id)
                ELSE IF s1.id \in DOMAIN s1.variables
                THEN [s1 EXCEPT !.val = s1.variables[s1.id]]
                ELSE IF s1.id \in DOMAIN s1.functions
                THEN call_function(s1, s1.id)
                ELSE error(s1, "Undefined variable or function: " \o s1.id))
        ELSE IF s0.cc = "("
        THEN Bind(expr(advance(s0)), LAMBDA s1 :
                IF Failed(s1) THEN s1
                ELSE IF s1.cc # ")" THEN error(s1, "Expected ')'")
                ELSE advance(s1))
        ELSE error(s0, "Invalid factor"))

termLoop(st, result) ==
    Bind(st, LAMBDA s :
        IF s.cc = "*" \/ s.cc = "/"
        THEN Bind(factor(advance(s)), LAMBDA s1 :
                IF Failed(s1) THEN s1
                ELSE Bind(IF s.cc = "/" /\ s1.val = 0
                          THEN DivideByZero(s1, result)
                          ELSE Arith(s1, s.cc, result, s1.val), LAMBDA s2 :
                        IF s2.crash THEN s2 ELSE termLoop(s2, s2.val)))
        ELSE [s EXCEPT !.val = result])

term(st) ==
    Bind(factor(st), LAMBDA s1 :
        IF Failed(s1) THEN s1 ELSE termLoop(s1, s1.val))

exprLoop(st, result) ==
    Bind(st, LAMBDA s :
        IF s.cc = "+" \/ s.cc = "-"
        THEN Bind(term(advance(s)), LAMBDA s1 :
                IF Failed(s1) THEN s1
                ELSE Bind(Arith(s1, s.cc, result, s1.val), LAMBDA s2 :
                        IF s2.crash THEN s2 ELSE exprLoop(s2, s2.val)))
        ELSE [s EXCEPT !.val = result])

expr(st) ==
    Bind(term(st), LAMBDA s1 :
        IF Failed(s1) THEN s1 ELSE exprLoop(s1, s1.val))

\* for (param : func.parameters) { ','-check; args.push_back(expr()); }
callArgs(st, parameters, args) ==
    Bind(st, LAMBDA s :
        IF Len(args) = Len(parameters) THEN [s EXCEPT !.args = args]
        ELSE IF Len(args) > 0 /\ s.cc # ","
        THEN error(s, "Expected ',' between function arguments")
        ELSE Bind(expr(IF Len(args) > 0 THEN advance(s) ELSE s), LAMBDA s1 :
                IF Failed(s1) THEN s1
                ELSE callArgs(s1, parameters, Append(args, s1.val))))

\* call_function from `size_t saved_pos` on: the body is evaluated and the
\* caller's cursor, buffer and variables are put back; s3 is the state after
\* the closing ')' and before the parameters are bound
callBody(s3, func_name, func) ==
    Bind(expr(EnterBody(s3, func)), LAMBDA s5 :
        IF s5.crash THEN s5
        ELSE Bind(IF s5.err # NoErr
                  THEN RestoreOnFailure(s5, s3.input, s3.pos, s3.variables)
                  ELSE RestoreOnReturn(s5, s3.input, s3.pos, s3.variables),
                  LAMBDA s6 :
                    [s6 EXCEPT !.log = Append(s5.log,
                        CallRecord(func_name, s3, s6, s5.err # NoErr))]))

call_function(st, func_name) ==
    Bind(st, LAMBDA s :
        IF func_name \notin DOMAIN s.functions
        THEN error(s, "Undefined function: " \o func_name)
        ELSE Bind(skip_whitespace(s), LAMBDA s1 :
            IF s1.cc # "(" THEN error(s1, "Expected '(' for function call")
            ELSE Bind(callArgs(advance(s1), s.functions[func_name].parameters, <<>>),
                      LAMBDA s2 :
                IF Failed(s2) THEN s2
                ELSE IF s2.cc # ")"
                THEN error(s2, "Expected ')' after function arguments")
                ELSE Bind(advance(s2), LAMBDA s3 :
                        callBody(s3, func_name, s.functions[func_name])))))

(***************************************************************************)
(* Interpreter: statements                                                 *)
(***************************************************************************)
\* while (true) { parameters.push_back(identifier()); ... }
RECURSIVE parameterLoop(_, _)
parameterLoop(st, parameters) ==
    Bind(identifier(st), LAMBDA s1 :
        IF s1.cc = ")" THEN [s1 EXCEPT !.args = Append(parameters, s1.id)]
        ELSE IF s1.cc # "," THEN error(s1, "Expected ',' between parameters")
        ELSE parameterLoop(advance(s1), Append(parameters, s1.id)))

\* while (current_char != '\0' && current_char != '}') { body += current_char; advance(); }
RECURSIVE bodyLoop(_, _)
bodyLoop(st, body) ==
    Bind(st, LAMBDA s :
        IF s.cc # NUL /\ s.cc # "}" THEN bodyLoop(advance(s), body \o s.cc)
        ELSE [s EXCEPT !.id = body])

\* the function declaration from `if (current_char != '{')` on
functionBody(st, func_name, parameters) ==
    Bind(skip_whitespace(st), LAMBDA s6 :
        IF s6.cc # "{" THEN error(s6, "Expected '{' for function body")
        ELSE Bind(bodyLoop(advance(s6), ""), LAMBDA s7 :
            IF s7.cc # "}" THEN error(s7, "Expected '}' to end function body")
            ELSE [advance(s7) EXCEPT !.functions =
                     Put(s7.functions, func_name,
                         [parameters |-> parameters, body |-> s7.id])]))

\* the branch `else if (current_char == 'f')` of statement(), entered after advance()
functionDeclaration(st) ==
    Bind(identifier(st), LAMBDA s1 :
        IF s1.id # "function" THEN error(s1, "Unknown keyword: " \o s1.id)
        ELSE Bind(identifier(s1), LAMBDA s2 :
             Bind(skip_whitespace(s2), LAMBDA s3 :
                IF s3.cc # "(" THEN error(s3, "Expected '(' for function declaration")
                ELSE Bind(advance(s3), LAMBDA s4 :
                     Bind(IF s4.cc # ")" THEN parameterLoop(s4, <<>>)
                          ELSE [s4 EXCEPT !.args = <<>>],
                          LAMBDA s5 :
                        IF Failed(s5) THEN s5
                        ELSE functionBody(advance(s5), s2.id, s5.args))))))

\* the branch `else if (current_char == 'a')` of statement(), entered after advance()
arrayDeclaration(st) ==
    Bind(identifier(st), LAMBDA s1 :
        IF s1.id # "array" THEN error(s1, "Unknown keyword: " \o s1.id)
        ELSE Bind(identifier(s1), LAMBDA s2 :
             Bind(skip_whitespace(s2), LAMBDA s3 :
                IF s3.cc # "[" THEN error(s3, "Expected '[' for array declaration")
                ELSE Bind(expr(advance(s3)), LAMBDA s4 :
                    IF Failed(s4) THEN s4
                    ELSE IF s4.cc # "]" THEN error(s4, "Expected ']' after array size")
                    ELSE IF s4.val < 0 THEN [advance(s4) EXCEPT !.err = "vector"]
                    ELSE [advance(s4) EXCEPT !.arrays =
                             Put(s4.arrays, s2.id, [i \in 1..s4.val |-> 0])]))))

\* arrays[id][index] = value behind its two tests
arrayStore(st, id, index, value) ==
    IF id \in DOMAIN st.arrays
    THEN IF IndexOutOfBounds(index, Len(st.arrays[id]))
         THEN error(st, "Array index out of bounds")
         ELSE [st EXCEPT !.arrays[id][index + 1] = value]
    ELSE error(st, "Undefined array: " \o id)

\* the branch `else if (current_char == '[')` of statement(), entered after advance()
arrayAssignment(st, id) ==
    Bind(expr(st), LAMBDA s1 :
        IF Failed(s1) THEN s1
        ELSE IF s1.cc # "]" THEN error(s1, "Expected ']' for array assignment")
        ELSE Bind(skip_whitespace(advance(s1)), LAMBDA s2 :
            IF s2.cc # "=" THEN error(s2, "Expected '=' for array assignment")
            ELSE Bind(expr(advance(s2)), LAMBDA s3 :
                IF Failed(s3) THEN s3
                ELSE arrayStore(s3, id, s1.val, s3.val))))

\* the branch `if (isalpha(current_char))` of statement()
identifierStatement(st) ==
    Bind(identifier(st), LAMBDA s1 :
    Bind(skip_whitespace(s1), LAMBDA s2 :
        IF s2.cc = "="
        THEN Bind(expr(advance(s2)), LAMBDA s3 :
                IF Failed(s3) THEN s3
                ELSE [s3 EXCEPT !.variables = Put(s3.variables, s1.id, s3.val)])
        ELSE IF s2.cc = "(" THEN call_function(s2, s1.id)
        ELSE IF s2.cc = "[" THEN arrayAssignment(advance(s2), s1.id)
        ELSE error(s2, "Invalid statement")))

statement(st) ==
    Bind(skip_whitespace(st), LAMBDA s0 :
        IF s0.cc = NUL THEN s0
        ELSE IF isalpha(s0.cc) THEN identifierStatement(s0)
        ELSE IF s0.cc = "f" THEN functionDeclaration(advance(s0))
        ELSE IF s0.cc = "a" THEN arrayDeclaration(advance(s0))
        ELSE error(s0, "Unknown statement"))

\* a faulty loop body: the failure of the statement is swallowed and no ';'
\* is looked for
programIterationSwallows(st) ==
    Bind(statement(st), LAMBDA s1 : [s1 EXCEPT !.err = NoErr])

\* one iteration of the loop of program()
programIteration(st) ==
    Bind(statement(st), LAMBDA s1 :
        IF Failed(s1) THEN s1
        ELSE Bind(skip_whitespace(s1), LAMBDA s2 :
            IF s2.cc = ";" THEN advance(s2)
            ELSE IF s2.cc # NUL THEN error(s2, "Expected ';' after statement")
            ELSE s2))

\* program(): while (current_char != '\0') { ... }
RECURSIVE programLoop(_)
programLoop(st) ==
    Bind(st, LAMBDA s :
        IF Failed(s) \/ s.cc = NUL THEN s ELSE programLoop(programIteration(s)))

(***************************************************************************)
(* VirtualMachine: decoding                                                *)
(***************************************************************************)
NumRegisters == 6
HeapSize == 100
InitialStackPointer == 99

Digits09 == "0123456789"
UpperAZ == "ABCDEFGHIJKLMNOPQRSTUVWXYZ"
LowerAZ == "abcdefghijklmnopqrstuvwxyz"
IndexIn(s, c) == CHOOSE i \in 1..Len(s) : SubSeq(s, i, i) = c

\* the character code of a character of an instruction text
Ord(c) ==
    IF c \in DigitChars THEN 47 + IndexIn(Digits09, c)
    ELSE IF c \in AlphaChars
    THEN (IF \E i \in 1..Len(UpperAZ) : SubSeq(UpperAZ, i, i) = c
          THEN 64 + IndexIn(UpperAZ, c) ELSE 96 + IndexIn(LowerAZ, c))
    ELSE CASE c = " " -> 32 [] c = "+" -> 43 [] c = "-" -> 45 [] c = ":" -> 58
              [] c = "@" -> 64

\* std::string::substr(p): the tail from offset p (p <= size())
Substr(s, p) == SubSeq(s, p + 1, Len(s))

\* std::string::substr(0, n)
Prefix(s, n) == SubSeq(s, 1, IF n < Len(s) THEN n ELSE Len(s))

RECURSIVE SkipSpaces(_)
SkipSpaces(str) ==
    Bind(str, LAMBDA s :
        IF Len(s) > 0 /\ isspace(At(s, 0)) THEN SkipSpaces(Substr(s, 1)) ELSE s)

RECURSIVE LeadingDigits(_)
LeadingDigits(str) ==
    Bind(str, LAMBDA s :
        IF Len(s) > 0 /\ isdigit(At(s, 0))
        THEN At(s, 0) \o LeadingDigits(Substr(s, 1))
        ELSE "")

\* std::stoi: leading whitespace, an optional sign, decimal digits; throws
\* std::invalid_argument without digits and std::out_of_range beyond int
Stoi(str) ==
    Bind(SkipSpaces(str), LAMBDA t :
    Bind(LeadingDigits(IF Len(t) > 0 /\ At(t, 0) \in {"-", "+"}
                       THEN Substr(t, 1) ELSE t), LAMBDA d :
    Bind(IF Len(t) > 0 /\ At(t, 0) = "-"
         THEN -DecimalValue(d) ELSE DecimalValue(d), LAMBDA v :
        IF Len(d) = 0 THEN [ok |-> FALSE, val |-> 0, what |-> "stoi"]
        ELSE IF v > INT_MAX \/ v < -INT_MAX - 1
        THEN [ok |-> FALSE, val |-> 0, what |-> "stoi"]
        ELSE [ok |-> TRUE, val |-> v, what |-> ""])))

\* std::stoi(instruction.substr(p)): substr throws std::out_of_range past the end
StoiFrom(instruction, p) ==
    IF p > Len(instruction)
    THEN [ok |-> FALSE, val |-> 0, what |-> "basic_string::substr"]
    ELSE Stoi(Substr(instruction, p))

TruncMod(a, b) == a - b * TruncDiv(a, b)

RECURSIVE Power(_, _)
Power(b, e) == IF e = 0 THEN 1 ELSE b * Power(b, e - 1)

\* (int) std::pow(b, e)
Pow(b, e) ==
    IF e >= 0 THEN Power(b, e)
    ELSE IF b = 1 THEN 1
    ELSE IF b = -1 THEN (IF TruncMod(e, 2) = 0 THEN 1 ELSE -1)
    ELSE 0

(***************************************************************************)
(* VirtualMachine: the machine state threaded through the handlers.  exc   *)
(* is the what() of an exception in flight, crash the process killed.  The  *)
(* oracle says what this instruction's undefined behaviour yields.          *)
(***************************************************************************)
InFile(i) == i >= 0 /\ i < NumRegisters

Throw(m, what) == [m EXCEPT !.exc = what]

\* instruction[k] - '0'.  instruction[size()] is '\0'; an index past it reads
\* whatever follows the string (undefined behaviour)
RegIndex(m, instruction, k) ==
    IF k < Len(instruction) THEN Ord(At(instruction, k)) - 48
    ELSE IF k = Len(instruction) THEN 0 - 48
    ELSE (IF m.oracle.r1 = 0 THEN 0 ELSE 48) - 48

\* marks a decode that read past the end of the instruction text
DecodeTouch(m, instruction, k) ==
    IF k > Len(instruction) THEN [m EXCEPT !.ub = TRUE] ELSE m

\* registers[i] as an rvalue: outside 0..5 it is whatever lies there
RegRead(m, i, unwritten) ==
    IF InFile(i) THEN m.registers[i]
    ELSE IF i \in DOMAIN m.wild THEN m.wild[i]
    ELSE unwritten

\* the members behind int registers[6] are int* memory, int stackPointer,
\* std::vector<std::string> program, int pc: with 4-byte int and 8-byte
\* pointers pc lies where registers[16] would
PcSlot == 16

\* registers[i] = v: outside 0..5 the store lands outside the register file,
\* in slot PcSlot on the program counter
RegWrite(m, i, v) ==
    IF InFile(i) THEN [m EXCEPT !.registers[i] = v]
    ELSE [m EXCEPT !.wild = Put(m.wild, i, v), !.ub = TRUE,
                   !.crash = m.oracle.trap,
                   !.pc = IF i = PcSlot THEN v ELSE m.pc]

\* marks a read through an index outside the register file
RegTouch(m, i) == IF InFile(i) THEN m ELSE [m EXCEPT !.ub = TRUE]

(***************************************************************************)
(* VirtualMachine: the opcode handlers                                     *)
(***************************************************************************)
mov(m, instruction) ==
    Bind(StoiFrom(instruction, 6), LAMBDA value :
        IF ~value.ok THEN Throw(DecodeTouch(m, instruction, 4), value.what)
        ELSE RegWrite(DecodeTouch(m, instruction, 4),
                      RegIndex(m, instruction, 4), value.val))

arithmetic(m, instruction, op) ==
    LET reg1 == RegIndex(m, instruction, 4)
        reg2 == RegIndex(m, instruction, 6)
        a == RegRead(m, reg1, m.oracle.r1)
        b == IF reg2 = reg1 THEN a ELSE RegRead(m, reg2, m.oracle.r2)
        m1 == RegTouch(RegTouch(DecodeTouch(m, instruction, 6), reg1), reg2)
    IN CASE op = "ADD" -> RegWrite(m1, reg1, a + b)
         [] op = "SUB" -> RegWrite(m1, reg1, a - b)
         [] op = "MUL" -> RegWrite(m1, reg1, a * b)
         [] op = "DIV" -> IF b = 0 THEN Throw(m1, "Error: Division by zero!")
                          ELSE RegWrite(m1, reg1, TruncDiv(a, b))
         [] op = "MOD" -> IF b = 0 THEN Throw(m1, "Error: Modulus by zero!")
                          ELSE RegWrite(m1, reg1, TruncMod(a, b))
         [] op = "EXP" -> RegWrite(m1, reg1, Pow(a, b))
         [] OTHER -> m1

comparison(m, instruction, op) ==
    LET reg1 == RegIndex(m, instruction, 4)
        reg2 == RegIndex(m, instruction, 6)
        a == RegRead(m, reg1, m.oracle.r1)
        b == IF reg2 = reg1 THEN a ELSE RegRead(m, reg2, m.oracle.r2)
        m1 == RegTouch(RegTouch(DecodeTouch(m, instruction, 6), reg1), reg2)
        result == CASE op = "GT" -> a > b
                    [] op = "LT" -> a < b
                    [] op = "EQ" -> a = b
                    [] OTHER -> FALSE
    IN RegWrite(m1, reg1, IF result THEN 1 ELSE 0)

print(m, instruction) ==
    RegTouch(DecodeTouch(m, instruction, 6), RegIndex(m, instruction, 6))

\* a faulty jump: the target is one past the label's address
jumpPastLabel(m, instruction) ==
    LET label == Substr(instruction, 4)
    IN IF Len(instruction) < 4 THEN Throw(m, "basic_string::substr")
       ELSE IF label \notin DOMAIN m.labels
       THEN Throw(m, "Error: Undefined label " \o label)
       ELSE [m EXCEPT !.pc = m.labels[label] + 1]

jump(m, instruction) ==
    LET label == Substr(instruction, 4)
    IN IF Len(instruction) < 4 THEN Throw(m, "basic_string::substr")
       ELSE IF label \notin DOMAIN m.labels
       THEN Throw(m, "Error: Undefined label " \o label)
       ELSE [m EXCEPT !.pc = m.labels[label]]

jumpIfEqual(m, instruction) ==
    LET reg1 == RegIndex(m, instruction, 4)
        reg2 == RegIndex(m, instruction, 6)
        label == Substr(instruction, 8)
        a == RegRead(m, reg1, m.oracle.r1)
        b == IF reg2 = reg1 THEN a ELSE RegRead(m, reg2, m.oracle.r2)
        m1 == RegTouch(RegTouch(m, reg1), reg2)
    IN IF Len(instruction) < 8 THEN Throw(m, "basic_string::substr")
       ELSE IF a = b THEN jump(m1, "JMP " \o label)
       ELSE m1

call(m, instruction) ==
    LET label == Substr(instruction, 5)
        m1 == [m EXCEPT !.callStack = Append(m.callStack, m.pc)]
    IN IF Len(instruction) < 5 THEN Throw(m, "basic_string::substr")
       ELSE IF label \notin DOMAIN m.labels
       THEN Throw(m1, "Error: Undefined label " \o label)
       ELSE [m1 EXCEPT !.pc = m.labels[label]]

ret(m) ==
    IF Len(m.callStack) = 0
    THEN Throw(m, "Error: Return from empty call stack!")
    ELSE [m EXCEPT !.pc = m.callStack[Len(m.callStack)],
                   !.callStack = SubSeq(m.callStack, 1, Len(m.callStack) - 1)]

alloc(m, instruction) ==
    Bind(StoiFrom(instruction, 6), LAMBDA size :
        IF ~size.ok THEN Throw(m, size.what)
        ELSE IF m.stackPointer - size.val < 0 THEN Throw(m, "Error: Out of memory!")
        ELSE [m EXCEPT !.stackPointer = m.stackPointer - size.val])

\* memory[addr] = registers[reg]: no test of addr, a store outside the 100
\* cells is undefined behaviour
store(m, instruction) ==
    Bind(StoiFrom(instruction, 8), LAMBDA addr :
    Bind(RegIndex(m, instruction, 6), LAMBDA reg :
        IF ~addr.ok THEN Throw(m, addr.what)
        ELSE IF addr.val < 0 \/ addr.val >= HeapSize
        THEN [RegTouch(m, reg) EXCEPT !.ub = TRUE, !.crash = m.oracle.trap]
        ELSE [RegTouch(m, reg) EXCEPT !.memory =
                 Put(m.memory, addr.val, RegRead(m, reg, m.oracle.r1))]))

\* registers[reg] = memory[addr]: a cell never stored to holds whatever
\* new int[100] left there
loadFromHeap(m, instruction) ==
    Bind(StoiFrom(instruction, 8), LAMBDA addr :
    Bind(RegIndex(m, instruction, 6), LAMBDA reg :
        IF ~addr.ok THEN Throw(m, addr.what)
        ELSE IF addr.val < 0 \/ addr.val >= HeapSize
        THEN Throw(m, "Error: Invalid memory address!")
        ELSE IF addr.val \in DOMAIN m.memory
        THEN RegWrite(m, reg, m.memory[addr.val])
        ELSE RegWrite([m EXCEPT !.ub = TRUE], reg, m.oracle.r1)))

\* std::string op = instruction.substr(0, 3);
Opcode(instruction) == Prefix(instruction, 3)

Dispatch(m, h) == [m EXCEPT !.handler = h]

execute(m0, instruction) ==
    Bind(m0, LAMBDA m :
    Bind(Opcode(instruction), LAMBDA op :
       IF op = "MOV" THEN mov(Dispatch(m, "MOV"), instruction)
       ELSE IF op = "ADD" THEN arithmetic(Dispatch(m, "ADD"), instruction, "ADD")
       ELSE IF op = "SUB" THEN arithmetic(Dispatch(m, "SUB"), instruction, "SUB")
       ELSE IF op = "MUL" THEN arithmetic(Dispatch(m, "MUL"), instruction, "MUL")
       ELSE IF op = "DIV" THEN arithmetic(Dispatch(m, "DIV"), instruction, "DIV")
       ELSE IF op = "MOD" THEN arithmetic(Dispatch(m, "MOD"), instruction, "MOD")
       ELSE IF op = "EXP" THEN arithmetic(Dispatch(m, "EXP"), instruction, "EXP")
       ELSE IF op = "GT" THEN comparison(Dispatch(m, "GT"), instruction, "GT")
       ELSE IF op = "LT" THEN comparison(Dispatch(m, "LT"), instruction, "LT")
       ELSE IF op = "EQ" THEN comparison(Dispatch(m, "EQ"), instruction, "EQ")
       ELSE IF op = "PRINT" THEN print(Dispatch(m, "PRINT"), instruction)
       ELSE IF op = "JMP" THEN jump(Dispatch(m, "JMP"), instruction)
       ELSE IF op = "JEQ" THEN jumpIfEqual(Dispatch(m, "JEQ"), instruction)
       ELSE IF op = "CALL" THEN call(Dispatch(m, "CALL"), instruction)
       ELSE IF op = "RET" THEN ret(Dispatch(m, "RET"))
       ELSE IF op = "ALLOC" THEN alloc(Dispatch(m, "ALLOC"), instruction)
       ELSE IF op = "STORE" THEN store(Dispatch(m, "STORE"), instruction)
       ELSE IF op = "LOAD" THEN loadFromHeap(Dispatch(m, "LOAD"), instruction)
       ELSE Throw(Dispatch(m, "none"), "Unknown instruction: " \o instruction)))

(***************************************************************************)
(* Bounds and inputs                                                       *)
(***************************************************************************)
MaxInterpretCalls == 1      \* interpret() calls per Interpreter
MaxWs == 1                  \* spaces inserted into one gap between two tokens
MaxRuns == 1                \* run() calls per VirtualMachine
MaxLoads == 1               \* load() calls per VirtualMachine
MaxSteps == 6               \* instructions executed by one run()
MaxReruns == 2              \* run() calls where a program is run again
MaxReloads == 2             \* load() calls where a program is run again

\* what an undefined division by zero does in the interpreter
UBOutcomes == {"trap", "zero", "keep"}

\* what undefined behaviour yields in one VM instruction: the values read from
\* slots nobody stored to, and whether a stray store kills the process
VMOracles == [r1 : {0, 1}, r2 : {0, 1}, trap : BOOLEAN]

RECURSIVE Spaces(_)
Spaces(n) == IF n = 0 THEN "" ELSE " " \o Spaces(n - 1)

\* the tokens written one after the other, gaps[i] spaces after token i
RECURSIVE Join(_, _, _)
Join(tokens, gaps, i) ==
    IF i > Len(tokens) THEN ""
    ELSE tokens[i] \o (IF i < Len(tokens) THEN Spaces(gaps[i]) ELSE "")
                   \o Join(tokens, gaps, i + 1)

\* no whitespace at all, or whitespace in exactly one gap
Spacings(n) ==
    {[i \in 1..n |-> 0]} \cup
    {[i \in 1..n |-> IF i = g THEN k ELSE 0] : g \in 1..n, k \in 1..MaxWs}

TokenPrograms ==
    { <<"x", "=", "2", "+", "3", "*", "4", ";">>,
      <<"x", "=", "(", "2", "+", "3", ")", "*", "4", ";">>,
      <<"x", "=", "8", "-", "3", "-", "2", ";">>,
      <<"x", "=", "8", "/", "2", "/", "2", ";">>,
      <<"x", "=", "5", ";", "y", "=", "x", "*", "2", ";">>,
      <<"y", "=", "f", "(", "5", ")", ";">>,
      <<"a", "[", "2", "]", "=", "7", ";", "y", "=", "a", "[", "2", "]", ";">> }

SpacedTexts ==
    UNION {{Join(t, g, 1) : g \in Spacings(Len(t) - 1)} : t \in TokenPrograms}

IndexTexts == {"0", "1", "2", "3", "5", "0-1"}

ArrayTexts ==
    {"a[" \o i \o "]=7;y=a[" \o i \o "];" : i \in IndexTexts} \cup
    {"a[" \o i \o "] = 7;" : i \in IndexTexts} \cup
    {"y=a[" \o i \o "];" : i \in IndexTexts} \cup
    {"a[2]=7;y=a[2];z=a[3];", "a[1]=7;y=a[1];z=a[0-1];"} \cup
    {"x=1;a[x+" \o i \o "]=x+8;y=a[x+" \o i \o "]+b[0];" : i \in IndexTexts}

CallTexts ==
    { "y=f(5);", "x=7;y=f(5);", "f(5);", "x=7;z=1;f(5);", "y=f(5)+f(5);",
      "f=3;y=f(5);", "y=k(3);", "x=2;y=k(x+1)*2;", "y=f(f(5));",
      "y=h(1);", "x=4;y=h(1);", "x=1;y=g(2);x=3;", "z=9;g(2);", "y=f(h(1));",
      "y=p(5,3);", "y=f(5)+zz;" }

PlainTexts ==
    { "x = 2 + 3 * 4;", "x = (2 + 3) * 4;",
      "function f(x){x*x};", "array a[3];",
      "function f(x){x*x};y=f(5);", "array a[3];a[2]=7;",
      "x=1;y=zz;x=2;", "x=1/0;y=1;", "x=7/2;y=(0-7)/2;",
      "", "x=1", "x=1; ", ";", "x=1;;", "x=3 ;y=x;", "1=2;" }

Texts == SpacedTexts \cup ArrayTexts \cup CallTexts \cup PlainTexts

\* the text with its whitespace removed
RECURSIVE Strip(_)
Strip(str) ==
    Bind(str, LAMBDA s :
        IF Len(s) = 0 THEN ""
        ELSE (IF isspace(At(s, 0)) THEN "" ELSE At(s, 0)) \o Strip(Substr(s, 1)))

(***************************************************************************)
(* Interpreter: the object and interpret()                                 *)
(***************************************************************************)
Tables == [variables |-> variables, functions |-> functions, arrays |-> arrays]

\* the object as the productions see it, u the outcome of undefined behaviour
IState(u) ==
    [input |-> input, pos |-> pos, cc |-> current_char,
     variables |-> variables, functions |-> functions, arrays |-> arrays,
     err |-> NoErr, crash |-> FALSE, val |-> 0, id |-> "", args |-> <<>>,
     log |-> <<>>, ub |-> u]

\* interpret(text) up to the call of program()
StartState(tables, text, u) ==
    [input |-> text, pos |-> 0, cc |-> At(text, 0),
     variables |-> tables.variables, functions |-> tables.functions,
     arrays |-> tables.arrays,
     err |-> NoErr, crash |-> FALSE, val |-> 0, id |-> "", args |-> <<>>,
     log |-> <<>>, ub |-> u]

\* interpret(text) run to its end from the given tables
InterpretRun(tables, text, u) == programLoop(StartState(tables, text, u))

\* what a finished interpret() leaves: the tables and the message it printed
OutcomeOf(st) ==
    [variables |-> st.variables, functions |-> st.functions,
     arrays |-> st.arrays, err |-> st.err]

Outcome ==
    [variables |-> variables, functions |-> functions, arrays |-> arrays,
     err |-> ierr]

InitInterpreter ==
    /\ input = ""
    /\ pos = 0
    /\ current_char = NUL
    /\ variables = EmptyMap
    /\ functions = EmptyMap
    /\ arrays = EmptyMap
    /\ ipc = "idle"
    /\ ierr = NoErr
    /\ icalls = 0
    /\ ipre = [variables |-> EmptyMap, functions |-> EmptyMap, arrays |-> EmptyMap]
    /\ itext = ""
    /\ istmt = [variables |-> EmptyMap, functions |-> EmptyMap, arrays |-> EmptyMap]
    /\ ilog = <<>>

\* interpret(text): input = text; pos = 0; current_char = input[pos]; try { program(); }
Interpret(text) ==
    /\ ipc \in {"idle", "done"}
    /\ icalls < MaxInterpretCalls
    /\ input' = text
    /\ pos' = 0
    /\ current_char' = At(text, 0)
    /\ ipc' = "program"
    /\ ierr' = NoErr
    /\ icalls' = icalls + 1
    /\ ipre' = Tables
    /\ itext' = text
    /\ istmt' = Tables
    /\ ilog' = <<>>
    /\ UNCHANGED <<variables, functions, arrays>>

\* one iteration of while (current_char != '\0') in program(); an exception
\* leaves program() and is caught and printed by interpret()
ProgramStep(u) ==
    /\ ipc = "program"
    /\ current_char # NUL
    /\ \E st \in {programIteration(IState(u))} :
          /\ input' = st.input
          /\ pos' = st.pos
          /\ current_char' = st.cc
          /\ variables' = st.variables
          /\ functions' = st.functions
          /\ arrays' = st.arrays
          /\ ilog' = st.log
          /\ ierr' = st.err
          /\ ipc' = IF st.crash THEN "crashed"
                    ELSE IF st.err # NoErr THEN "done" ELSE "program"
    /\ istmt' = Tables
    /\ UNCHANGED <<icalls, ipre, itext>>

\* the loop condition fails: program() returns, and interpret() after it
ProgramExit ==
    /\ ipc = "program"
    /\ current_char = NUL
    /\ ipc' = "done"
    /\ UNCHANGED <<input, pos, current_char, variables, functions, arrays,
                   ierr, icalls, ipre, itext, istmt, ilog>>

NextInterpreter ==
    \/ \E text \in Texts : Interpret(text) /\ UNCHANGED vvars
    \/ \E u \in UBOutcomes : ProgramStep(u) /\ UNCHANGED vvars
    \/ ProgramExit /\ UNCHANGED vvars

(***************************************************************************)
(* Tables taken as given.  statement() never reaches its declaration       *)
(* branches (isalpha precedes them), so interpret() leaves both the        *)
(* function and the array table empty; statements about call_function and   *)
(* about array reads and writes are examined from tables put in by hand.    *)
(***************************************************************************)
GivenFunctions ==
    [n \in {"f", "h", "g", "k", "p"} |->
        CASE n = "f" -> [parameters |-> <<"x">>, body |-> "x*x"]
          [] n = "h" -> [parameters |-> <<"x">>, body |-> "x+zz"]
          [] n = "g" -> [parameters |-> <<"y">>, body |-> "1+h(y+1)"]
          [] n = "k" -> [parameters |-> <<"x">>, body |-> "f(x)+x"]
          [] n = "p" -> [parameters |-> <<"x", "y">>, body |-> "x-y"]]

GivenArrays ==
    { [n \in {"a", "b"} |-> IF n = "a" THEN <<0, 0, 0>> ELSE <<4, 5>>],
      [n \in {"a", "b"} |-> IF n = "a" THEN <<1, 2>> ELSE <<4, 5>>] }

InitTables ==
    /\ input = ""
    /\ pos = 0
    /\ current_char = NUL
    /\ variables = EmptyMap
    /\ functions = GivenFunctions
    /\ arrays \in GivenArrays
    /\ ipc = "idle"
    /\ ierr = NoErr
    /\ icalls = 0
    /\ ipre = Tables
    /\ itext = ""
    /\ istmt = Tables
    /\ ilog = <<>>

(***************************************************************************)
(* VirtualMachine: the programs loaded                                     *)
(***************************************************************************)
RegTexts == {"0", "1", "5"}

ArithPrograms ==
    { <<"MOV R" \o d \o " 10", "MOV R" \o r \o " 5", op \o " R" \o d \o " R" \o r>> :
        d \in RegTexts, r \in RegTexts, op \in {"ADD", "SUB", "MUL"} }

DivPrograms ==
    { <<"MOV R0 10", "MOV R1 " \o v, op \o " R0 R1", "MOV R2 1">> :
        v \in {"0", "5"}, op \in {"DIV", "MOD"} }

\* STORE Rd a; LOAD Re a
RoundTrip(d, e, a) == <<"STORE R" \o d \o " " \o a, "LOAD R" \o e \o " " \o a>>

HeapPrograms ==
    { RoundTrip(d, e, a) : d \in RegTexts, e \in RegTexts, a \in {"0", "99"} }
    \cup { <<"MOV R0 7">> \o RoundTrip("0", "1", "5"),
           <<"LOAD R0 150">>, <<"LOAD R1 5">>, <<"STORE R0 100">> }

ControlPrograms ==
    { <<"CALL L", "MOV R2 1", "RET">>, <<"MOV R0 1", "CALL L", "MOV R2 1">>,
      <<"RET">>, <<"CALL nowhere", "MOV R0 1">>,
      <<"JMP L", "MOV R0 1">>, <<"MOV R0 1", "JMP L">>, <<"JMP nowhere">>,
      <<"JEQ R0 R1 L", "MOV R2 1">>, <<"MOV R0 1", "JEQ R0 R1 L", "MOV R2 1">>,
      <<"JEQ R0 R0 L", "MOV R2 1">>, <<"JEQ R0 R1 nowhere", "MOV R2 1">> }

\* the bytecode of main()
MainProgram ==
    << "MOV R0 10", "MOV R1 5", "MUL R0 R1", "MOD R0 R1", "EXP R0 R1",
       "STORE R0 0", "LOAD R0 0", "PRINT R0", "JMP end", "end:", "PRINT R0" >>

OtherPrograms ==
    { <<"NOP">>, <<"L:", "MOV R0 1">>, <<"GT R0 R1">>, <<"LT R0 R1">>,
      <<"EQ R0 R1">>, <<"GT">>, <<"PRINT R0">>, <<"ALLOC 10">>, <<"EXP R0 R1">>,
      <<"MOV R0">>, <<"MOV">>, <<"">>, <<"MOV R0 3", "MOV R0 4">> }

Bytecodes ==
    ArithPrograms \cup DivPrograms \cup HeapPrograms \cup ControlPrograms
    \cup OtherPrograms \cup {MainProgram}

LabelNames == {"L", "end", "1 L"}

(***************************************************************************)
(* VirtualMachine: the object, load(), defineLabel() and run()             *)
(***************************************************************************)
MState(o) ==
    [registers |-> registers, memory |-> memory, stackPointer |-> stackPointer,
     pc |-> pc, callStack |-> callStack, labels |-> labels, wild |-> wild,
     ub |-> vub, exc |-> NoErr, crash |-> FALSE, handler |-> "", oracle |-> o]

\* VirtualMachine(): registers 0, pc 0, not running; the 100 cells of
\* new int[100] are not initialised (no cell of memory has a value yet)
InitVM ==
    /\ registers = [i \in 0..(NumRegisters - 1) |-> 0]
    /\ memory = EmptyMap
    /\ stackPointer = InitialStackPointer
    /\ program = <<>>
    /\ pc = 0
    /\ running = FALSE
    /\ callStack = <<>>
    /\ labels = EmptyMap
    /\ vpc = "idle"
    /\ verr = NoErr
    /\ vlast = [index |-> 0 - 1, instruction |-> "", handler |-> "", what |-> NoErr]
    /\ vub = FALSE
    /\ wild = EmptyMap
    /\ vruns = 0
    /\ vloads = 0
    /\ vsteps = 0
    /\ vends = <<>>

\* load(bytecode): program = bytecode; at most n calls are made
LoadUpTo(bytecode, n) ==
    /\ vpc \in {"idle", "returned"}
    /\ vloads < n
    /\ program' = bytecode
    /\ vloads' = vloads + 1
    /\ UNCHANGED <<registers, memory, stackPointer, pc, running, callStack,
                   labels, vpc, verr, vlast, vub, wild, vruns, vsteps, vends>>

Load(bytecode) == LoadUpTo(bytecode, MaxLoads)

\* defineLabel(label): labels[label] = program.size()
DefineLabel(label) ==
    /\ vpc \in {"idle", "returned"}
    /\ vruns < MaxRuns
    /\ labels' = Put(labels, label, Len(program))
    /\ UNCHANGED <<registers, memory, stackPointer, program, pc, running,
                   callStack, vpc, verr, vlast, vub, wild, vruns, vloads, vsteps,
                   vends>>

\* a faulty handler: the exception is printed and the loop goes on
CaughtAndGoesOn(m, isRunning) == isRunning

\* run(): pc = 0; running = true; then the loop; at most n calls are made
RunStartUpTo(n) ==
    /\ vpc \in {"idle", "returned"}
    /\ vruns < n
    /\ pc' = 0
    /\ running' = TRUE
    /\ vpc' = "loop"
    /\ vruns' = vruns + 1
    /\ vsteps' = 0
    /\ UNCHANGED <<registers, memory, stackPointer, program, callStack, labels,
                   verr, vlast, vub, wild, vloads, vends>>

RunStart == RunStartUpTo(MaxRuns)

\* catch (const std::exception& e) { ...; running = false; }
Caught(m, isRunning) == IF m.exc # NoErr THEN FALSE ELSE isRunning

\* one iteration of while (running && pc < program.size()): fetch, pc++,
\* execute; an exception is printed and clears running
RunStep(o) ==
    /\ vpc = "loop"
    /\ running /\ pc < Len(program)
    /\ vsteps < MaxSteps
    /\ \E m \in {execute([MState(o) EXCEPT !.pc = pc + 1], program[pc + 1])} :
          /\ registers' = m.registers
          /\ memory' = m.memory
          /\ stackPointer' = m.stackPointer
          /\ pc' = m.pc
          /\ callStack' = m.callStack
          /\ labels' = m.labels
          /\ wild' = m.wild
          /\ vub' = m.ub
          /\ vlast' = [index |-> pc, instruction |-> program[pc + 1],
                       handler |-> m.handler, what |-> m.exc]
          /\ verr' = IF m.exc # NoErr THEN m.exc ELSE verr
          /\ running' = Caught(m, running)
          /\ vpc' = IF m.crash THEN "crashed" ELSE "loop"
    /\ vsteps' = vsteps + 1
    /\ UNCHANGED <<program, vruns, vloads, vends>>

\* the loop condition fails: run() returns
RunReturn ==
    /\ vpc = "loop"
    /\ ~(running /\ pc < Len(program))
    /\ vpc' = "returned"
    /\ vends' = Append(vends, [program |-> program, labels |-> labels,
                               registers |-> registers, memory |-> memory])
    /\ UNCHANGED <<registers, memory, stackPointer, program, pc, running,
                   callStack, labels, verr, vlast, vub, wild, vruns, vloads,
                   vsteps>>

NextVM ==
    \/ \E bytecode \in Bytecodes : Load(bytecode) /\ UNCHANGED ivars
    \/ \E label \in LabelNames : DefineLabel(label) /\ UNCHANGED ivars
    \/ RunStart /\ UNCHANGED ivars
    \/ \E o \in VMOracles : RunStep(o) /\ UNCHANGED ivars
    \/ RunReturn /\ UNCHANGED ivars

(***************************************************************************)
(* Specifications                                                          *)
(***************************************************************************)
Init == InitInterpreter /\ InitVM
Next == NextInterpreter \/ NextVM
Spec == Init /\ [][Next]_vars

\* the Interpreter alone, as constructed
SpecInterpreter == Init /\ [][NextInterpreter]_vars

\* interpret() runs on once called: the loop of program() takes its next
\* iteration, and returns when its condition fails
SpecInterpreterFair ==
    /\ Init /\ [][NextInterpreter]_vars
    /\ WF_vars(\E u \in UBOutcomes : ProgramStep(u) /\ UNCHANGED vvars)
    /\ WF_vars(ProgramExit /\ UNCHANGED vvars)

\* the Interpreter alone, from given function and array tables
InitGiven == InitTables /\ InitVM
SpecTables == InitGiven /\ [][NextInterpreter]_vars

\* the VirtualMachine alone
SpecVM == Init /\ [][NextVM]_vars

(***************************************************************************)
(* Properties: the Interpreter as constructed (SpecInterpreter)            *)
(***************************************************************************)
\* the text the cursor stands before begins with t
AtCursor(t) ==
    pos + Len(t) <= Len(input) /\ SubSeq(input, pos + 1, pos + Len(t)) = t

\* ProgramStep is enabled: a statement is about to be executed
BeforeStatement == ipc = "program" /\ current_char # NUL

\* C1: whitespace between two tokens does not change the outcome of a
\* program: a finished interpret() of a text leaves the tables and the
\* message that the text with its whitespace removed leaves, and
\* "x = 2 + 3 * 4;" leaves x = 14, "x = (2 + 3) * 4;" leaves x = 20, both
\* without an error.
C1_WhitespaceInsensitive ==
    (ipc = "done" /\ itext \in SpacedTexts \cup {"x = 2 + 3 * 4;", "x = (2 + 3) * 4;"})
    => /\ Outcome = OutcomeOf(InterpretRun(ipre, Strip(itext), "trap"))
       /\ itext = "x = 2 + 3 * 4;"
            => ierr = NoErr /\ "x" \in DOMAIN variables /\ variables["x"] = 14
       /\ itext = "x = (2 + 3) * 4;"
            => ierr = NoErr /\ "x" \in DOMAIN variables /\ variables["x"] = 20

\* C2: a statement beginning with `function` or `array` is taken as a
\* declaration: "function f(x){x*x};" raises no error and leaves f with
\* the parameters [x] and the body x*x in the function table, and
\* "array a[3];" raises no error and leaves a = [0, 0, 0] in the array table.
C2_DeclarationsDispatched ==
    ipc = "done"
    => /\ itext = "function f(x){x*x};"
            => /\ ierr = NoErr
               /\ "f" \in DOMAIN functions
               /\ functions["f"] = [parameters |-> <<"x">>, body |-> "x*x"]
       /\ itext = "array a[3];"
            => /\ ierr = NoErr
               /\ "a" \in DOMAIN arrays
               /\ arrays["a"] = <<0, 0, 0>>

(***************************************************************************)
(* Properties: the VirtualMachine (SpecVM)                                 *)
(***************************************************************************)
\* the digit naming register i in an instruction
DigitText(i) == SubSeq(Digits09, i + 1, i + 1)

\* the text of an instruction up to its first space
FirstWord(instruction) ==
    IF \E i \in 1..Len(instruction) : SubSeq(instruction, i, i) = " "
    THEN SubSeq(instruction, 1,
                (CHOOSE i \in 1..Len(instruction) :
                    /\ SubSeq(instruction, i, i) = " "
                    /\ \A j \in 1..(i - 1) : SubSeq(instruction, j, j) # " ") - 1)
    ELSE instruction

\* the opcodes of the instruction set
Opcodes ==
    {"MOV", "ADD", "SUB", "MUL", "DIV", "MOD", "EXP", "GT", "LT", "EQ", "PRINT",
     "JMP", "JEQ", "CALL", "RET", "ALLOC", "STORE", "LOAD"}

\* RunStep is enabled: an instruction is about to be executed
BeforeInstruction == vpc = "loop" /\ running /\ pc < Len(program) /\ vsteps < MaxSteps

\* C3: MOV R0 10; MOV R1 5; MUL R0 R1 on a fresh machine ends with register
\* 0 = 50, register 1 = 5 and registers 2..5 still 0; and for every d, s
\* `MOV Rd imm` sets register d to imm, `ADD/SUB/MUL Rd Rs` set register d
\* to (old Rd) op Rs, and no other register changes.
C3_MovAndArithmetic ==
    [][ BeforeInstruction =>
        /\ \A d \in 0..(NumRegisters - 1) :
              program[pc + 1] = "MOV R" \o DigitText(d) \o " 10"
              => registers' = [registers EXCEPT ![d] = 10]
        /\ \A d \in 0..(NumRegisters - 1), r \in 0..(NumRegisters - 1) :
              /\ program[pc + 1] = "ADD R" \o DigitText(d) \o " R" \o DigitText(r)
                 => registers' = [registers EXCEPT ![d] = registers[d] + registers[r]]
              /\ program[pc + 1] = "SUB R" \o DigitText(d) \o " R" \o DigitText(r)
                 => registers' = [registers EXCEPT ![d] = registers[d] - registers[r]]
              /\ program[pc + 1] = "MUL R" \o DigitText(d) \o " R" \o DigitText(r)
                 => registers' = [registers EXCEPT ![d] = registers[d] * registers[r]]
        /\ (program = <<"MOV R0 10", "MOV R1 5", "MUL R0 R1">> /\ pc = 2)
              => registers' = [i \in 0..(NumRegisters - 1) |->
                                 IF i = 0 THEN 50 ELSE IF i = 1 THEN 5 ELSE 0]
      ]_vars

\* C4: the instruction executed last failed as an unknown instruction if
\* and only if its opcode is not one of the eighteen, and an instruction
\* whose opcode is one of them went to the handler of that opcode.
C4_UnknownInstructionIff ==
    vlast.index >= 0
    => /\ (vlast.handler = "none") <=> (FirstWord(vlast.instruction) \notin Opcodes)
       /\ (vlast.handler = "none")
            <=> (verr = "Unknown instruction: " \o vlast.instruction)
       /\ FirstWord(vlast.instruction) \in Opcodes
            => vlast.handler = FirstWord(vlast.instruction)

\* C5: STORE Rd a followed by LOAD Re a, for a in 0..99 and d, e in 0..5,
\* both complete without an error and leave register e equal to the value
\* register d held when the STORE was executed.
C5_HeapRoundTrip ==
    \A d \in 0..(NumRegisters - 1), e \in 0..(NumRegisters - 1), a \in {"0", "99"} :
        (/\ program = RoundTrip(DigitText(d), DigitText(e), a)
         /\ vpc = "returned"
         /\ vlast.index \in {0, 1}
         /\ vlast.instruction = program[vlast.index + 1])
        => /\ verr = NoErr
           /\ vlast.index = 1
           /\ d # e => registers[e] = registers[d]

\* C6: CALL L at index i, L registered, pushes i+1 on the call stack and
\* sets pc to labels[L]; RET pops the entry on top of the call stack and
\* sets pc to it, so that execution goes on behind the CALL.
C6_CallReturn ==
    [][ BeforeInstruction =>
        /\ (program[pc + 1] = "CALL L" /\ "L" \in DOMAIN labels)
              => /\ callStack' = Append(callStack, pc + 1)
                 /\ pc' = labels["L"]
                 /\ verr' = verr
                 /\ running'
        /\ (program[pc + 1] = "RET" /\ callStack # <<>>)
              => /\ pc' = callStack[Len(callStack)]
                 /\ callStack' = SubSeq(callStack, 1, Len(callStack) - 1)
                 /\ running'
      ]_vars

\* C7: JEQ Rd Rs L, L registered, sets pc to labels[L] when register d
\* equals register s and leaves pc at the following instruction when they
\* differ; it fails only when L is not registered and the registers are equal.
C7_JumpIfEqual ==
    [][ BeforeInstruction =>
        \A d \in 0..(NumRegisters - 1), r \in 0..(NumRegisters - 1) :
           \A l \in {"L", "nowhere"} :
              program[pc + 1] = "JEQ R" \o DigitText(d) \o " R" \o DigitText(r) \o " " \o l
              => /\ (registers[d] = registers[r] /\ l \in DOMAIN labels)
                    => pc' = labels[l] /\ running' /\ verr' = verr
                 /\ registers[d] # registers[r]
                    => pc' = pc + 1 /\ running' /\ verr' = verr
                 /\ (registers[d] = registers[r] /\ l \notin DOMAIN labels)
                    => ~running' /\ verr' = "Error: Undefined label " \o l
      ]_vars

(***************************************************************************)
(* Properties: call_function and the arrays, from given tables (SpecTables)*)
(***************************************************************************)
\* the function table holds f with the single parameter x and the body x*x
HoldsF ==
    /\ "f" \in DOMAIN functions
    /\ functions["f"] = [parameters |-> <<"x">>, body |-> "x*x"]

\* every call of f that returned left the variable table it found, and f(5)
\* yielded 25
CallsOfFIsolated(log) ==
    \A i \in 1..Len(log) :
        (log[i].name = "f" /\ ~log[i].failed)
        => /\ log[i].exit_variables = log[i].entry_variables
           /\ log[i].args = <<5>> => log[i].result = 25

\* the statements y=f(5); and f(5); yield 25 and change no other variable
StatementsWithF ==
    /\ AtCursor("y=f(5);")
          => ierr' = NoErr /\ variables' = Put(variables, "y", 25)
    /\ AtCursor("f(5);")
          => ierr' = NoErr /\ variables' = variables

C9_FailedCallRestores ==
    /\ \A i \in 1..Len(ilog) :
          ilog[i].failed
          => /\ ilog[i].exit_input = ilog[i].entry_input
             /\ ilog[i].exit_variables = ilog[i].entry_variables
             /\ ilog[i].exit_pos = ilog[i].entry_pos
             /\ ilog[i].exit_pos > 0
             /\ At(ilog[i].exit_input, ilog[i].exit_pos - 1) = ")"
    /\ (ipc = "done" /\ ilog # <<>> /\ ilog[Len(ilog)].failed)
          => /\ ierr # NoErr
             /\ input = itext
             /\ variables = istmt.variables
             /\ pos = ilog[Len(ilog)].exit_pos
             /\ current_char = At(input, pos)

\* g(2) failed in h, which g calls: both calls put back what they found,
\* h the body of g with y bound, g the text with x = 1
C9_Witness ==
    /\ itext = "x=1;y=g(2);x=3;"
    /\ ipc = "done"
    /\ ierr = "Error: Undefined variable or function: zz"
    /\ Len(ilog) = 2
    /\ ilog[1].name = "h" /\ ilog[1].failed
    /\ ilog[1].entry_input = "1+h(y+1)"
    /\ ilog[1].entry_variables = [n \in {"x", "y"} |-> IF n = "x" THEN 1 ELSE 2]
    /\ ilog[2].name = "g" /\ ilog[2].failed
    /\ variables = [n \in {"x"} |-> 1]

\* the value of an index text
IndexValue ==
    [i \in IndexTexts |->
        CASE i = "0" -> 0 [] i = "1" -> 1 [] i = "2" -> 2 [] i = "3" -> 3
          [] i = "5" -> 5 [] i = "0-1" -> 0 - 1]

OutOfBoundsMessage == "Error: Array index out of bounds"

\* a[index] = value; with the array table holding a
WriteTo(index, value) ==
    IF index < 0 \/ index >= Len(arrays["a"])
    THEN ierr' = OutOfBoundsMessage /\ arrays' = arrays /\ variables' = variables
    ELSE /\ ierr' = NoErr
         /\ arrays' = [arrays EXCEPT !["a"][index + 1] = value]
         /\ variables' = variables

\* v = a[index] + more; with the array table holding a
ReadFrom(v, index, more) ==
    IF index < 0 \/ index >= Len(arrays["a"])
    THEN ierr' = OutOfBoundsMessage /\ arrays' = arrays /\ variables' = variables
    ELSE /\ ierr' = NoErr
         /\ arrays' = arrays
         /\ variables' = Put(variables, v, arrays["a"][index + 1] + more)

\* C10: with a of length n in the array table, a read of a[i] and the
\* statement a[i] = e fail with "Array index out of bounds" when i < 0 or
\* i >= n and leave every array as it was; with 0 <= i < n the statement
\* stores e in element i and changes no other element, and a read of a[i]
\* after a[i] = v yields v.
C10_ArrayBounds ==
    [][ (BeforeStatement /\ "a" \in DOMAIN arrays /\ "b" \in DOMAIN arrays
            /\ "a" \notin DOMAIN variables)
        => \A i \in IndexTexts :
            /\ AtCursor("a[" \o i \o "]=7;") => WriteTo(IndexValue[i], 7)
            /\ \A v \in {"y", "z"} :
                  AtCursor(v \o "=a[" \o i \o "];") => ReadFrom(v, IndexValue[i], 0)
            /\ (AtCursor("a[x+" \o i \o "]=x+8;") /\ "x" \in DOMAIN variables)
                  => WriteTo(variables["x"] + IndexValue[i], variables["x"] + 8)
            /\ (AtCursor("y=a[x+" \o i \o "]+b[0];") /\ "x" \in DOMAIN variables)
                  => ReadFrom("y", variables["x"] + IndexValue[i], arrays["b"][1])
            /\ (/\ AtCursor("y=a[" \o i \o "];")
                /\ itext = "a[" \o i \o "]=7;y=a[" \o i \o "];"
                /\ pos > 0)
                  => ierr' = NoErr /\ variables'["y"] = 7
      ]_vars

\* a[2] = 7 stored 7 in the last of three elements, y = a[2] read 7 back,
\* z = a[3] failed and changed nothing
C10_Witness ==
    /\ itext = "a[2]=7;y=a[2];z=a[3];"
    /\ ipc = "done"
    /\ ierr = OutOfBoundsMessage
    /\ arrays["a"] = <<0, 0, 7>>
    /\ arrays["b"] = <<4, 5>>
    /\ variables = [n \in {"y"} |-> 7]

(***************************************************************************)
(* Properties: expressions (SpecExpr)                                      *)
(***************************************************************************)
ExprOps == {"+", "-", "*", "/"}

\* the operands of the expressions tried
ExprOperands == {<<2, 3, 4>>, <<8, 3, 2>>, <<8, 2, 2>>, <<2, 8, 3>>}

\* a op1 b op2 c written flat, as (a op1 b) op2 c or as a op1 (b op2 c)
ExprShapes == [form : {"flat", "left", "right"}, n : ExprOperands,
               op1 : ExprOps, op2 : ExprOps]

Abs(a) == IF a < 0 THEN 0 - a ELSE a

\* the integer quotient of a by b, rounded toward zero
Quotient(a, b) ==
    CHOOSE q \in (0 - Abs(a))..Abs(a) :
        LET r == a - q * b
        IN Abs(r) < Abs(b) /\ (r = 0 \/ (r > 0) = (a > 0))

Apply(op, a, b) ==
    CASE op = "+" -> a + b
      [] op = "-" -> a - b
      [] op = "*" -> a * b
      [] op = "/" -> Quotient(a, b)

\* `*` and `/` bind tighter than `+` and `-`
Tighter(op2, op1) == op2 \in {"*", "/"} /\ op1 \in {"+", "-"}

\* the shape groups to the right: a op1 (b op2 c)
GroupsRight(e) == e.form = "right" \/ (e.form = "flat" /\ Tighter(e.op2, e.op1))

\* no division by zero happens in the expression
WellDefined(e) ==
    IF GroupsRight(e)
    THEN /\ e.op2 = "/" => e.n[3] # 0
         /\ e.op1 = "/" => Apply(e.op2, e.n[2], e.n[3]) # 0
    ELSE /\ e.op1 = "/" => e.n[2] # 0
         /\ e.op2 = "/" => e.n[3] # 0

\* the value of the expression by the grammar
ValueOf(e) ==
    IF GroupsRight(e)
    THEN Apply(e.op1, e.n[1], Apply(e.op2, e.n[2], e.n[3]))
    ELSE Apply(e.op2, Apply(e.op1, e.n[1], e.n[2]), e.n[3])

\* the expression written without whitespace
Show(e) ==
    CASE e.form = "flat" ->
            DigitText(e.n[1]) \o e.op1 \o DigitText(e.n[2]) \o e.op2 \o DigitText(e.n[3])
      [] e.form = "left" ->
            "(" \o DigitText(e.n[1]) \o e.op1 \o DigitText(e.n[2]) \o ")" \o e.op2
                \o DigitText(e.n[3])
      [] e.form = "right" ->
            DigitText(e.n[1]) \o e.op1 \o "(" \o DigitText(e.n[2]) \o e.op2
                \o DigitText(e.n[3]) \o ")"

ExprCases == {e \in ExprShapes : WellDefined(e)}

\* v=e; for every expression tried, with the value the grammar gives e
ExprValues ==
    LET texts == {"v=" \o Show(e) \o ";" : e \in ExprCases}
    IN [t \in texts |-> ValueOf(CHOOSE e \in ExprCases : "v=" \o Show(e) \o ";" = t)]

\* expressions with a literal or an intermediate result beyond INT_MAX
WideTexts == {"v=2147483648;", "v=2147483647+1;", "v=65536*65536;"}

ExprTexts == DOMAIN ExprValues \cup WideTexts

NextExpr ==
    \/ \E text \in ExprTexts : Interpret(text) /\ UNCHANGED vvars
    \/ \E u \in UBOutcomes : ProgramStep(u) /\ UNCHANGED vvars
    \/ ProgramExit /\ UNCHANGED vvars

\* the Interpreter as constructed, given assignments of expressions
SpecExpr == Init /\ [][NextExpr]_vars

\* C11 as stated: for every expression e without whitespace over
\* non-negative literals, + - * / and parentheses, without a division by
\* zero, v=e; stores the value of e in v.
C11_ExpressionsAsStated ==
    ipc \in {"done", "crashed"}
    => /\ itext \in DOMAIN ExprValues
            => /\ ipc = "done" /\ ierr = NoErr
               /\ variables = Put(ipre.variables, "v", ExprValues[itext])
       /\ itext \in WideTexts
            => /\ ipc = "done" /\ ierr = NoErr
               /\ "v" \in DOMAIN variables /\ variables["v"] > INT_MAX

\* C11: for every expression e without whitespace over non-negative
\* literals, + - * / and parentheses, without a division by zero, whose
\* literals and intermediate results fit an int, v=e; stores in v the value
\* of e with * and / binding tighter than + and -, operators of equal
\* precedence applied left to right, and division truncating.
C11_Expressions ==
    (ipc \in {"done", "crashed"} /\ itext \in DOMAIN ExprValues)
    => /\ ipc = "done" /\ ierr = NoErr
       /\ variables = Put(ipre.variables, "v", ExprValues[itext])

\* (2-3)/4 was evaluated to 0: the parentheses first, the quotient truncated
C11_Witness ==
    /\ itext = "v=(2-3)/4;"
    /\ ipc = "done"
    /\ ierr = NoErr
    /\ variables = [n \in {"v"} |-> 0]

(***************************************************************************)
(* Properties: failures in the Interpreter (SpecInterpreter)               *)
(***************************************************************************)
\* C12: when a statement fails to parse or to evaluate, interpret()
\* returns normally, no statement after the failing one is executed, and
\* the tables are the ones from the moment of the failure: in
\* "x=1;y=zz;x=2;" the second statement fails and x stays 1, in
\* "x=1/0;y=1;" the first statement fails and nothing is assigned.
C12_AbortOnFailure ==
    /\ ipc # "crashed"
    /\ ierr # NoErr => ipc = "done"
    /\ (ipc = "done" /\ itext = "x=1;y=zz;x=2;")
          => /\ ierr = "Error: Undefined variable or function: zz"
             /\ variables = Put(ipre.variables, "x", 1)
    /\ (ipc = "done" /\ itext = "x=1/0;y=1;")
          => /\ ierr # NoErr
             /\ variables = ipre.variables

(***************************************************************************)
(* Properties: failures in the VirtualMachine (SpecVM)                     *)
(***************************************************************************)
\* C13: DIV Rd Rs and MOD Rd Rs with register s holding 0 fail with the
\* division (modulus) by zero error, leave the six registers as they were
\* and halt the run; with register s not 0 they set register d to the
\* quotient (remainder) and do not fail.
C13_DivisionByZero ==
    [][ BeforeInstruction =>
        \A d \in 0..(NumRegisters - 1), r \in 0..(NumRegisters - 1) :
           /\ program[pc + 1] = "DIV R" \o DigitText(d) \o " R" \o DigitText(r)
              => IF registers[r] = 0
                 THEN /\ vlast'.what = "Error: Division by zero!"
                      /\ registers' = registers
                      /\ ~running' /\ vpc' = "loop"
                 ELSE /\ vlast'.what = NoErr /\ running'
                      /\ registers' = [registers EXCEPT
                                         ![d] = TruncDiv(registers[d], registers[r])]
           /\ program[pc + 1] = "MOD R" \o DigitText(d) \o " R" \o DigitText(r)
              => IF registers[r] = 0
                 THEN /\ vlast'.what = "Error: Modulus by zero!"
                      /\ registers' = registers
                      /\ ~running' /\ vpc' = "loop"
                 ELSE /\ vlast'.what = NoErr /\ running'
                      /\ registers' = [registers EXCEPT
                                         ![d] = TruncMod(registers[d], registers[r])]
      ]_vars

(***************************************************************************)
(* Properties: the run loop (SpecControl)                                  *)
(***************************************************************************)
\* programs that fail, jump or end; `MOV 1 5` has the digit where mov()
\* looks for it and writes register 1
ControlBytecodes ==
    { <<"MOV 1 5", "ADD 0 1", "RET", "MOV 2 7">>,
      <<"JMP nowhere", "MOV 0 1">>,
      <<"L:", "MOV 0 1">>,
      <<"MOV R0 10", "MOV R1 0", "DIV R0 R1", "MOV 2 1">>,
      <<"MOV R0", "MOV 0 1">>,
      <<"LOAD R0 150">>,
      <<"JMP end", "end:", "MOV 0 1">>,
      <<"MOV 0 1", "JMP L", "MOV 0 2">>,
      <<"JEQ R0 R1 L", "MOV 2 1">>,
      <<"CALL L", "MOV 2 1", "RET">>,
      <<"MOV 1 5", "ADD 0 1">>,
      <<"MOV @ 0">>,
      MainProgram }

\* the labels these programs jump to
ControlLabels == {"L", "end"}

NextControl ==
    \/ \E bytecode \in ControlBytecodes : Load(bytecode) /\ UNCHANGED ivars
    \/ \E label \in ControlLabels : DefineLabel(label) /\ UNCHANGED ivars
    \/ RunStart /\ UNCHANGED ivars
    \/ \E o \in VMOracles : RunStep(o) /\ UNCHANGED ivars
    \/ RunReturn /\ UNCHANGED ivars

\* the VirtualMachine alone, given these programs
SpecControl == Init /\ [][NextControl]_vars

\* C14: once an instruction of the current run has raised a failure,
\* running is false and the only thing run() still does is return: no
\* further instruction is executed, and the registers, the heap and the
\* call stack keep the values they had when the failure was raised.
C14_HaltOnFailure ==
    [][ (vpc = "loop" /\ vsteps > 0 /\ vlast.what # NoErr)
        => /\ ~running
           /\ vpc' = "returned"
           /\ UNCHANGED <<registers, memory, callStack, wild, vsteps, vlast, pc>>
      ]_vars

\* RET failed as the third instruction: registers 0 and 1 hold what the
\* first two instructions left, MOV 2 7 behind the RET was not executed
C14_Witness ==
    /\ program = <<"MOV 1 5", "ADD 0 1", "RET", "MOV 2 7">>
    /\ vpc = "returned"
    /\ ~running
    /\ vsteps = 3
    /\ vlast.what = "Error: Return from empty call stack!"
    /\ registers = [i \in 0..(NumRegisters - 1) |-> IF i \in {0, 1} THEN 5 ELSE 0]
    /\ pc = 3

(***************************************************************************)
(* Properties: running a program again (SpecRerun)                         *)
(***************************************************************************)
RerunBytecodes ==
    { <<"MOV 1 5", "ADD 0 1">>,
      <<"MOV R0 10", "MOV R1 5", "MUL R0 R1">>,
      <<"MOV 0 3", "JMP L", "MOV 0 4">> }

NextRerun ==
    \/ \E bytecode \in RerunBytecodes : LoadUpTo(bytecode, MaxReloads) /\ UNCHANGED ivars
    \/ \E label \in LabelNames : DefineLabel(label) /\ UNCHANGED ivars
    \/ RunStartUpTo(MaxReruns) /\ UNCHANGED ivars
    \/ \E o \in VMOracles : RunStep(o) /\ UNCHANGED ivars
    \/ RunReturn /\ UNCHANGED ivars

\* the VirtualMachine alone, loaded and run up to twice
SpecRerun == Init /\ [][NextRerun]_vars

\* C15: two runs of the same program with the same labels end with the
\* same registers and the same heap, also when the second is a run of the
\* machine that has already run the program.
C15_SameEndState ==
    \A i \in 1..Len(vends), j \in 1..Len(vends) :
        (vends[i].program = vends[j].program /\ vends[i].labels = vends[j].labels)
        => /\ vends[i].registers = vends[j].registers
           /\ vends[i].memory = vends[j].memory

DocumentedRegisterInstructions ==
    { op \o " R" \o d \o " R" \o r :
        op \in {"ADD", "SUB", "MUL", "DIV", "MOD", "EXP", "GT", "LT", "EQ"},
        d \in RegTexts, r \in RegTexts }
    \cup { "MOV R" \o d \o " " \o v : d \in RegTexts, v \in {"10", "5", "0"} }
    \cup { "PRINT R" \o d : d \in RegTexts }
    \cup { op \o " R" \o d \o " " \o a :
             op \in {"STORE", "LOAD"}, d \in RegTexts, a \in {"0", "99"} }
    \cup { "JEQ R" \o d \o " R" \o r \o " L" : d \in RegTexts, r \in RegTexts }

\* C17: an instruction with documented R0..R5 operands reads and writes
\* registers only through an index in 0..5: executing it touches nothing
\* outside the register file.
C17_RegisterAccessInFile ==
    [][ (/\ BeforeInstruction
         /\ program[pc + 1] \in DocumentedRegisterInstructions
         /\ ~vub /\ wild = EmptyMap)
        => (~vub' /\ wild' = EmptyMap)
      ]_vars

\* the documented order of the entry points: the labels were defined after
\* the program was loaded, so each is bound to the length of the program
LabelsAfterLoad ==
    /\ vloads > 0
    /\ \A l \in DOMAIN labels : labels[l] = Len(program)

\* C18: with load(P), then the defineLabel calls, then run(), the run
\* executes at most |P| instructions and pc never decreases during it.
C18_RunWithinProgramLength ==
    [][ (LabelsAfterLoad /\ BeforeInstruction /\ vsteps' = vsteps + 1)
        => (pc' >= pc /\ vsteps' <= Len(program))
      ]_vars

\* C19: a division whose divisor evaluates to 0 is signalled as a failure
\* before the division is performed and caught by interpret(): in
\* "x=1/0;y=1;" the process is not killed, x is never assigned, and the
\* call ends with the failure reported.
C19_DivisionByZeroSignalled ==
    itext = "x=1/0;y=1;"
    => /\ ipc # "crashed"
       /\ "x" \notin DOMAIN variables
       /\ "y" \notin DOMAIN variables
       /\ ipc = "done" => ierr # NoErr

(***************************************************************************)
(* Properties: termination of interpret() (SpecInterpreterFair)            *)
(***************************************************************************)
\* the call of interpret() under way started from empty symbol tables
StartedEmpty ==
    /\ ipre.variables = EmptyMap
    /\ ipre.functions = EmptyMap
    /\ ipre.arrays = EmptyMap

\* C20: started from empty tables, an iteration of the loop of program()
\* that continues the loop leaves the cursor further on in the same text,
\* never past its end; and every call of interpret() comes to an end.
C20_InterpretTerminates ==
    /\ [][ (ipc = "program" /\ current_char # NUL /\ StartedEmpty)
           => /\ ipc' = "program" => pos' > pos
              /\ pos' <= Len(input)
              /\ input' = input
         ]_vars
    /\ (ipc = "program" /\ StartedEmpty) ~> (ipc \in {"done", "crashed"})

\* "x=3 ;y=x;" from empty tables: two iterations, each further on, and the
\* call has returned at the end of the text with both variables assigned
C20_Witness ==
    /\ itext = "x=3 ;y=x;"
    /\ StartedEmpty
    /\ ipc = "done"
    /\ ierr = NoErr
    /\ pos = Len(input)
    /\ variables = Put(Put(EmptyMap, "x", 3), "y", 3)
====
